---- MODULE Spec2Model ----
(***************************************************************************)
(* A model of the diphone speech synthesiser of synth.py.                  *)
(*                                                                         *)
(* Text is modelled as Python holds it: a string is a sequence of          *)
(* one-character strings, so that lower(), re.sub, str.replace, split and  *)
(* the substring test of get_wavs are computed, not assumed.  A waveform   *)
(* unit is a sequence of integer samples (a writable numpy array of an     *)
(* integer dtype); the inventory maps a file name to the array object, and *)
(* every reference to a unit inside synthesise is a reference to that one  *)
(* object, so an in-place write through a slice view is a write to the     *)
(* inventory.                                                              *)
(***************************************************************************)
EXTENDS Integers, Sequences, FiniteSets, TLC

VARIABLES
    \* ---- Synth ----
    wav_folder,     \* the directory handed to Synth(): a sequence of entries
    constructed,    \* "no" | "ok" | "error": outcome of Synth.__init__
    rate,           \* self.rate
    diphones,       \* self.diphones: file name -> samples
    loaded,         \* history: self.diphones as get_wavs returned it
    call,           \* history: arguments of the last synthesise call
    pre,            \* history: self.diphones when the last call started
    audio,          \* outcome of the last synthesise call: [status, data]
    \* ---- Synth.phones_to_diphones called on its own ----
    phones_in,      \* the phone list handed in
    l_diphones,     \* the list returned
    \* ---- Utterance.normalise_dates called on its own ----
    date,           \* the date string handed in
    d_str,          \* outcome: [status, text]
    \* ---- Utterance ----
    phrase,         \* self.phrase
    phrase0,        \* history: the phrase the Utterance was built with
    dictionary,     \* cmudict.dict(): word -> list of pronunciations
    reverse_arg,    \* history: the reverse argument of get_phone_seq
    phone_seq,      \* outcome of get_phone_seq: [status, phones]
    \* ---- Utterance.normalise_phrase, one recursive call at a time ----
    pc,             \* "idle" | "scan" | "returned" | the exception raised
    rescans,        \* history: the recursive calls made so far
    scanned         \* history: self.phrase before the last substitution

vars == <<wav_folder, constructed, rate, diphones, loaded, call, pre, audio,
          phones_in, l_diphones, date, d_str,
          phrase, phrase0, dictionary, reverse_arg, phone_seq,
          pc, rescans, scanned>>

synthVars == <<wav_folder, constructed, rate, diphones, loaded, call, pre, audio>>
keysVars  == <<phones_in, l_diphones>>
dateVars  == <<date, d_str>>
scanVars  == <<pc, rescans, scanned>>
uttVars   == <<phrase, phrase0, dictionary, reverse_arg, phone_seq, scanVars>>

----------------------------------------------------------------------------
(* Python values *)

None == "None"

Min(a, b) == IF a < b THEN a ELSE b
Max(a, b) == IF a > b THEN a ELSE b

\* A slice bound as Python normalises it for a sequence of length n.
PyIdx(i, n) == IF i < 0 THEN Max(i + n, 0) ELSE Min(i, n)

\* s[lo:hi], 0-based, negative bounds counted from the end.
PySlice(s, lo, hi) == SubSeq(s, PyIdx(lo, Len(s)) + 1, PyIdx(hi, Len(s)))

\* s[lo:]
PySliceFrom(s, lo) == SubSeq(s, PyIdx(lo, Len(s)) + 1, Len(s))

\* s[:hi]
PySliceTo(s, hi) == SubSeq(s, 1, PyIdx(hi, Len(s)))

\* reversed(s), list.reverse(), np.flip on a one-dimensional array
Reverse(s) == [i \in 1..Len(s) |-> s[Len(s) + 1 - i]]

\* int(x) for the rational x = num / den, den > 0: truncation toward zero.
Trunc(num, den) == IF num >= 0 THEN num \div den ELSE -((-num) \div den)

RECURSIVE Flatten(_)
Flatten(ss) == IF ss = <<>> THEN <<>> ELSE Head(ss) \o Flatten(Tail(ss))

Digits == {"0", "1", "2", "3", "4", "5", "6", "7", "8", "9"}

UpperChars == <<"A", "B", "C", "D", "E", "F", "G", "H", "I", "J", "K", "L", "M",
                "N", "O", "P", "Q", "R", "S", "T", "U", "V", "W", "X", "Y", "Z">>
LowerChars == <<"a", "b", "c", "d", "e", "f", "g", "h", "i", "j", "k", "l", "m",
                "n", "o", "p", "q", "r", "s", "t", "u", "v", "w", "x", "y", "z">>

LowerChar(c) ==
    IF \E i \in 1..Len(UpperChars) : UpperChars[i] = c
    THEN LowerChars[CHOOSE i \in 1..Len(UpperChars) : UpperChars[i] = c]
    ELSE c

\* str.lower()
Lower(s) == [i \in 1..Len(s) |-> LowerChar(s[i])]

\* re.sub(r'[0-9]', '', s)
RECURSIVE StripDigits(_)
StripDigits(s) ==
    IF s = <<>> THEN <<>>
    ELSE IF Head(s) \in Digits THEN StripDigits(Tail(s))
    ELSE <<Head(s)>> \o StripDigits(Tail(s))

\* sub in s, for strings
Contains(s, sub) ==
    \E i \in 0..(Len(s) - Len(sub)) : SubSeq(s, i + 1, i + Len(sub)) = sub

----------------------------------------------------------------------------
(* Synth *)

PAU == <<"p", "a", "u">>
WAV == <<"w", "a", "v">>
DOT_WAV == <<".", "w", "a", "v">>

\* simpleaudio.RATE, the rate of an Audio instance that has loaded nothing
RATE == 16000

\* phones_to_diphones without the closing 'pau'
phones_to_diphones_NoEndPau(phones) ==
    LET l_phones_fil ==
            <<PAU>> \o [i \in 1..Len(phones) |-> StripDigits(Lower(phones[i]))]
    IN  [i \in 1..(Len(l_phones_fil) - 1) |->
            l_phones_fil[i] \o <<"-">> \o l_phones_fil[i + 1] \o DOT_WAV]

\* Lines 146-166.  l_phones, l_phones_fil and l_diphones are the lists of the
\* code; the IndexError of the last round of the loop ends it.
phones_to_diphones(phones) ==
    LET l_phones     == [i \in 1..Len(phones) |-> Lower(phones[i])]
        stripped     == [i \in 1..Len(l_phones) |-> StripDigits(l_phones[i])]
        l_phones_fil == <<PAU>> \o stripped \o <<PAU>>
    IN  [i \in 1..(Len(l_phones_fil) - 1) |->
            l_phones_fil[i] \o <<"-">> \o l_phones_fil[i + 1] \o DOT_WAV]

\* The test of line 31: 'wav' in file
IsWavName(file) == Contains(file, WAV)

\* Lines 26-43.  files is os.listdir's answer, an entry is
\* [name, decodes, rate, data]; audio_instance.load raises on an entry that does
\* not decode, and nothing catches it.  acc is [diphones, rate, err].
RECURSIVE get_wavs_loop(_, _)
get_wavs_loop(files, acc) ==
    IF files = <<>> \/ acc.err THEN acc
    ELSE LET file == Head(files) IN
         IF IsWavName(file.name)
         THEN IF file.decodes
              THEN get_wavs_loop(Tail(files),
                       [diphones |-> (file.name :> file.data) @@ acc.diphones,
                        rate     |-> file.rate,
                        err      |-> FALSE])
              ELSE [acc EXCEPT !.err = TRUE]
         ELSE get_wavs_loop(Tail(files), acc)

get_wavs(folder) ==
    get_wavs_loop(folder, [diphones |-> <<>>, rate |-> RATE, err |-> FALSE])

\* Lines 52-58.  The slice diphone_array[-n:] is a view: the writes of the loop
\* land in diphone_array itself.  values_updated holds one value per sample of
\* the view, so the loop's read values_updated[i] raises IndexError on an array
\* shorter than nr_of_values, after every sample of the view was written.
\* int(a * (i / n)) is computed exactly; the floating-point product agrees with
\* it for the windows modelled here (n <= 5).
smooth_end(diphone_array, nr_of_values) ==
    LET view == PySliceFrom(diphone_array, -nr_of_values)
        off  == Len(diphone_array) - Len(view)
        n    == Min(Len(view), nr_of_values)
        values_updated ==
            [j \in 1..n |-> Trunc(view[j] * (nr_of_values - j), nr_of_values)]
    IN  [arr |-> [k \in 1..Len(diphone_array) |->
                     IF k > off /\ k - off <= n
                     THEN values_updated[k - off] ELSE diphone_array[k]],
         err |-> n < nr_of_values]

\* Lines 67-72, as smooth_end with the view diphone_array[:n].
smooth_beg(diphone_array, nr_of_values) ==
    LET view == PySliceTo(diphone_array, nr_of_values)
        n    == Min(Len(view), nr_of_values)
        values_updated ==
            [j \in 1..n |-> Trunc(view[j] * (j - 1), nr_of_values)]
    IN  [arr |-> [k \in 1..Len(diphone_array) |->
                     IF k <= n THEN values_updated[k] ELSE diphone_array[k]],
         err |-> n < nr_of_values]

\* np.add on two one-dimensional arrays: elementwise, a length-1 operand is
\* broadcast, any other mismatch raises ValueError.  The sums formed here are
\* of two ramped samples and stay inside the sample width.
NpAddOk(a, b) == Len(a) = Len(b) \/ Len(a) = 1 \/ Len(b) = 1

NpAdd(a, b) ==
    IF Len(a) = Len(b) THEN [i \in 1..Len(a) |-> a[i] + b[i]]
    ELSE IF Len(a) = 1 THEN [i \in 1..Len(b) |-> a[1] + b[i]]
    ELSE [i \in 1..Len(a) |-> a[i] + b[1]]

\* Resolve with the loop left at the first key the inventory lacks
RECURSIVE ResolveUntilMissing(_, _)
ResolveUntilMissing(keys, d) ==
    IF keys = <<>> \/ Head(keys) \notin DOMAIN d THEN <<>>
    ELSE <<Head(keys)>> \o ResolveUntilMissing(Tail(keys), d)

\* Lines 87-95: the keys found in the inventory, in key order (KeyError skips).
RECURSIVE Resolve(_, _)
Resolve(keys, d) ==
    IF keys = <<>> THEN <<>>
    ELSE IF Head(keys) \in DOMAIN d
         THEN <<Head(keys)>> \o Resolve(Tail(keys), d)
         ELSE Resolve(Tail(keys), d)

\* Lines 99-104: the smoothing calls in the order the code makes them, each on
\* the array object the list element refers to (named by its key).
RECURSIVE MiddleOps(_)
MiddleOps(middle) ==
    IF middle = <<>> THEN <<>>
    ELSE <<[op |-> "beg", key |-> Head(middle)],
           [op |-> "end", key |-> Head(middle)]>> \o MiddleOps(Tail(middle))

SmoothOps(list_for_smoothing) ==
    <<[op |-> "end", key |-> list_for_smoothing[1]]>>
    \o MiddleOps(PySlice(list_for_smoothing, 1, -1))
    \o <<[op |-> "beg", key |-> list_for_smoothing[Len(list_for_smoothing)]]>>

\* Runs the smoothing calls on the inventory d; the first call that raises ends
\* the run with its writes kept.  st is [d, err].
RECURSIVE RunSmoothOps(_, _, _)
RunSmoothOps(ops, st, n) ==
    IF ops = <<>> \/ st.err THEN st
    ELSE LET o == Head(ops)
             r == IF o.op = "end" THEN smooth_end(st.d[o.key], n)
                                  ELSE smooth_beg(st.d[o.key], n)
         IN  RunSmoothOps(Tail(ops),
                          [d   |-> [st.d EXCEPT ![o.key] = r.arr],
                           err |-> r.err], n)

\* Lines 99-104: smooth_dip, a list of references again.
SmoothDip(list_for_smoothing) ==
    <<list_for_smoothing[1]>>
    \o PySlice(list_for_smoothing, 1, -1)
    \o <<list_for_smoothing[Len(list_for_smoothing)]>>

\* Lines 107-113: one overlap per adjacent pair of smooth_dip.
ValToAddOk(smooth_dip, d, n) ==
    \A i \in 1..(Len(smooth_dip) - 1) :
        NpAddOk(PySliceFrom(d[smooth_dip[i]], -n), PySliceTo(d[smooth_dip[i + 1]], n))

ValToAdd(smooth_dip, d, n) ==
    [i \in 1..(Len(smooth_dip) - 1) |->
        NpAdd(PySliceFrom(d[smooth_dip[i]], -n), PySliceTo(d[smooth_dip[i + 1]], n))]

\* Lines 116-126: np.split cuts at the given indices with Python's slices.
DipArr(smooth_dip, d, n) ==
    LET m == Len(smooth_dip) IN
    [i \in 1..m |->
        IF i = 1 THEN PySlice(d[smooth_dip[1]], 0, -n)
        ELSE IF i = m THEN PySliceFrom(d[smooth_dip[m]], n)
        ELSE PySlice(d[smooth_dip[i]], n, -n)]

\* Lines 128-131
RECURSIVE Interleave(_, _)
Interleave(val_to_add, dip_rest) ==
    IF val_to_add = <<>> THEN <<>>
    ELSE Head(val_to_add) \o Head(dip_rest)
         \o Interleave(Tail(val_to_add), Tail(dip_rest))

\* ApplyReverse testing for the "signals" of the docstring
ApplyReverseSignals(data, reverse) ==
    IF reverse = "signals" THEN Reverse(data) ELSE data

\* Lines 135-136
ApplyReverse(data, reverse) == IF reverse = "signal" THEN Reverse(data) ELSE data

\* Lines 83-137.  d is self.diphones and rt self.rate when the call starts; the
\* answer is [status, data, diphones]: the Audio's samples when the call
\* returns, the exception when it raises, and self.diphones as the call leaves
\* it either way.
synthesise(d, rt, phones, reverse, smooth_concat) ==
    LET affected_values    == rt \div 100
        list_for_smoothing == Resolve(phones_to_diphones(phones), d)
    IN
    IF ~smooth_concat
    THEN [status   |-> "ok",
          data     |-> ApplyReverse(
                           Flatten([i \in 1..Len(list_for_smoothing) |->
                                       d[list_for_smoothing[i]]]), reverse),
          diphones |-> d]
    ELSE IF list_for_smoothing = <<>>
    THEN [status |-> "IndexError", data |-> <<>>, diphones |-> d]
    ELSE
    LET st == RunSmoothOps(SmoothOps(list_for_smoothing),
                           [d |-> d, err |-> FALSE], affected_values)
        smooth_dip == SmoothDip(list_for_smoothing)
    IN
    IF st.err
    THEN [status |-> "IndexError", data |-> <<>>, diphones |-> st.d]
    ELSE IF ~ValToAddOk(smooth_dip, st.d, affected_values)
    THEN [status |-> "ValueError", data |-> <<>>, diphones |-> st.d]
    ELSE
    LET val_to_add == ValToAdd(smooth_dip, st.d, affected_values)
        dip_arr    == DipArr(smooth_dip, st.d, affected_values)
    IN  [status   |-> "ok",
         data     |-> ApplyReverse(
                          dip_arr[1] \o Interleave(val_to_add, Tail(dip_arr)),
                          reverse),
         diphones |-> st.d]

----------------------------------------------------------------------------
(* Utterance *)

\* Lines 199-206
dys ==
    (<<"1">> :> <<"f", "i", "r", "s", "t">>) @@
    (<<"2">> :> <<"s", "e", "c", "o", "n", "d">>) @@
    (<<"3">> :> <<"t", "h", "i", "r", "d">>) @@
    (<<"4">> :> <<"f", "o", "u", "r", "t", "h">>) @@
    (<<"5">> :> <<"f", "i", "f", "t", "h">>) @@
    (<<"6">> :> <<"s", "i", "x", "t", "h">>) @@
    (<<"7">> :> <<"s", "e", "v", "e", "n", "t", "h">>) @@
    (<<"8">> :> <<"e", "i", "g", "h", "t", "h">>) @@
    (<<"9">> :> <<"n", "i", "n", "t", "h">>) @@
    (<<"1", "0">> :> <<"t", "e", "n", "t", "h">>) @@
    (<<"1", "1">> :> <<"e", "l", "e", "v", "e", "n", "t", "h">>) @@
    (<<"1", "2">> :> <<"t", "w", "e", "l", "f", "t", "h">>) @@
    (<<"1", "3">> :> <<"t", "h", "i", "r", "t", "e", "e", "n", "t", "h">>) @@
    (<<"1", "4">> :> <<"f", "o", "u", "r", "t", "e", "e", "n", "t", "h">>) @@
    (<<"1", "5">> :> <<"f", "i", "f", "t", "e", "e", "n", "t", "h">>) @@
    (<<"1", "6">> :> <<"s", "i", "x", "t", "e", "e", "n", "t", "h">>) @@
    (<<"1", "7">> :> <<"s", "e", "v", "e", "n", "t", "e", "e", "n", "t", "h">>) @@
    (<<"1", "8">> :> <<"e", "i", "g", "h", "t", "e", "e", "n", "t", "h">>) @@
    (<<"1", "9">> :> <<"n", "i", "n", "e", "t", "e", "e", "n", "t", "h">>) @@
    (<<"2", "0">> :> <<"t", "w", "e", "n", "t", "i", "e", "t", "h">>) @@
    (<<"2", "1">> :> <<"t", "w", "e", "n", "t", "y", "-", "f", "i", "r", "s", "t">>) @@
    (<<"2", "2">> :> <<"t", "w", "e", "n", "t", "y", "-", "s", "e", "c", "o", "n", "d">>) @@
    (<<"2", "3">> :> <<"t", "w", "e", "n", "t", "y", "-", "t", "h", "i", "r", "d">>) @@
    (<<"2", "4">> :> <<"t", "w", "e", "n", "t", "y", "-", "f", "o", "u", "r", "t", "h">>) @@
    (<<"2", "5">> :> <<"t", "w", "e", "n", "t", "y", "-", "f", "i", "f", "t", "h">>) @@
    (<<"2", "6">> :> <<"t", "w", "e", "n", "t", "y", "-", "s", "i", "x", "t", "h">>) @@
    (<<"2", "7">> :> <<"t", "w", "e", "n", "t", "y", "-", "s", "e", "v", "e", "n", "t", "h">>) @@
    (<<"2", "8">> :> <<"t", "w", "e", "n", "t", "y", "-", "e", "i", "g", "h", "t", "h">>) @@
    (<<"2", "9">> :> <<"t", "w", "e", "n", "t", "y", "-", "n", "i", "n", "t", "h">>) @@
    (<<"3", "0">> :> <<"t", "h", "i", "r", "t", "i", "e", "t", "h">>) @@
    (<<"3", "1">> :> <<"t", "h", "i", "r", "t", "y", "-", "f", "i", "r", "s", "t">>)

\* Lines 207-209
mths ==
    (<<"1">> :> <<"j", "a", "n", "u", "a", "r", "y">>) @@
    (<<"2">> :> <<"f", "e", "b", "r", "u", "a", "r", "y">>) @@
    (<<"3">> :> <<"m", "a", "r", "c", "h">>) @@
    (<<"4">> :> <<"a", "p", "r", "i", "l">>) @@
    (<<"5">> :> <<"m", "a", "y">>) @@
    (<<"6">> :> <<"j", "u", "n", "e">>) @@
    (<<"7">> :> <<"j", "u", "l", "y">>) @@
    (<<"8">> :> <<"a", "u", "g", "u", "s", "t">>) @@
    (<<"9">> :> <<"s", "e", "p", "t", "e", "m", "b", "e", "r">>) @@
    (<<"1", "0">> :> <<"o", "c", "t", "o", "b", "e", "r">>) @@
    (<<"1", "1">> :> <<"n", "o", "v", "e", "m", "b", "e", "r">>) @@
    (<<"1", "2">> :> <<"d", "e", "c", "e", "m", "b", "e", "r">>)

\* Lines 210-211
yrs_ones ==
    (<<"1">> :> <<"o", "n", "e">>) @@
    (<<"2">> :> <<"t", "w", "o">>) @@
    (<<"3">> :> <<"t", "h", "r", "e", "e">>) @@
    (<<"4">> :> <<"f", "o", "u", "r">>) @@
    (<<"5">> :> <<"f", "i", "v", "e">>) @@
    (<<"6">> :> <<"s", "i", "x">>) @@
    (<<"7">> :> <<"s", "e", "v", "e", "n">>) @@
    (<<"8">> :> <<"e", "i", "g", "h", "t">>) @@
    (<<"9">> :> <<"n", "i", "n", "e">>)

\* Lines 212-213
yrs_tens ==
    (<<"0">> :> <<"o">>) @@
    (<<"2">> :> <<"t", "w", "e", "n", "t", "y">>) @@
    (<<"3">> :> <<"t", "h", "i", "r", "t", "y">>) @@
    (<<"4">> :> <<"f", "o", "r", "t", "y">>) @@
    (<<"5">> :> <<"f", "i", "f", "t", "y">>) @@
    (<<"6">> :> <<"s", "i", "x", "t", "y">>) @@
    (<<"7">> :> <<"s", "e", "v", "e", "n", "t", "y">>) @@
    (<<"8">> :> <<"e", "i", "g", "h", "t", "y">>) @@
    (<<"9">> :> <<"n", "i", "n", "e", "t", "y">>)

\* Lines 214-216
yrs_10to19 ==
    (<<"1", "0">> :> <<"t", "e", "n">>) @@
    (<<"1", "1">> :> <<"e", "l", "e", "v", "e", "n">>) @@
    (<<"1", "2">> :> <<"t", "w", "e", "l", "v", "e">>) @@
    (<<"1", "3">> :> <<"t", "h", "i", "r", "t", "e", "e", "n">>) @@
    (<<"1", "4">> :> <<"f", "o", "u", "r", "t", "e", "e", "n">>) @@
    (<<"1", "5">> :> <<"f", "i", "f", "t", "e", "e", "n">>) @@
    (<<"1", "6">> :> <<"s", "i", "x", "t", "e", "e", "n">>) @@
    (<<"1", "7">> :> <<"s", "e", "v", "e", "n", "t", "e", "e", "n">>) @@
    (<<"1", "8">> :> <<"e", "i", "g", "h", "t", "e", "e", "n">>) @@
    (<<"1", "9">> :> <<"n", "i", "n", "e", "t", "e", "e", "n">>)

\* string.punctuation, but for the backquote, which no string of this
\* language holds
Punctuation ==
   {"!", "\"", "#", "$", "%", "&", "'", "(", ")", "*", "+", ",", "-", ".",
    "/", ":", ";", "<", "=", ">", "?", "@", "[", "\\", "]", "^", "_",
    "{", "|", "}", "~"}

\* The characters str.split() cuts at
Whitespace == {" ", "\t", "\n"}

\* The last position of the run of digits of s that starts at position i
\* (i - 1 when s[i] is no digit), positions counted from 1.
RECURSIVE DigitRunEnd(_, _)
DigitRunEnd(s, i) ==
    IF i <= Len(s) /\ s[i] \in Digits THEN DigitRunEnd(s, i + 1) ELSE i - 1

IsChar(s, i, c) == i <= Len(s) /\ s[i] = c

NoMatch == [ok |-> FALSE, end |-> 0, g1 |-> <<>>, g2 |-> <<>>, g3 |-> <<>>]

\* Line 180: date_format = (\d+)/(\d+)/?(\d{2,})? tried at position i of s.
\* Each \d+ takes its whole run of digits (a shorter one is followed by a
\* digit, never by what the pattern wants next); /? takes a slash when one is
\* there; the year group takes a run of two digits or more, or nothing.  A
\* group that took nothing is None in Python and the empty string here: the
\* code only tests it for truth.
\* e1 and e2 end the runs of the day and the month, p is the position before
\* the year (on the optional slash when there is one), e3 ends the run there.
MatchGroups(s, i, e1, e2, p, e3) ==
    IF e1 >= i /\ IsChar(s, e1 + 1, "/") /\ e2 >= e1 + 2
    THEN [ok |-> TRUE,
          end |-> IF e3 - p >= 2 THEN e3 ELSE p,
          g1 |-> SubSeq(s, i, e1),
          g2 |-> SubSeq(s, e1 + 2, e2),
          g3 |-> IF e3 - p >= 2 THEN SubSeq(s, p + 1, e3) ELSE <<>>]
    ELSE NoMatch

MatchYear(s, i, e1, e2, p) == MatchGroups(s, i, e1, e2, p, DigitRunEnd(s, p + 1))

MatchSlash(s, i, e1, e2) ==
    MatchYear(s, i, e1, e2, IF IsChar(s, e2 + 1, "/") THEN e2 + 1 ELSE e2)

MatchMonth(s, i, e1) == MatchSlash(s, i, e1, DigitRunEnd(s, e1 + 2))

MatchAt(s, i) == MatchMonth(s, i, DigitRunEnd(s, i))

\* The least position of a set of positions, 0 for an empty set
FirstOf(positions) ==
    IF positions = {} THEN 0
    ELSE CHOOSE k \in positions : \A j \in positions : k <= j

\* The leftmost position from i on where date_format matches, 0 for none
FirstMatch(s, i) == FirstOf({k \in i..Len(s) : MatchAt(s, k).ok})

SearchAt(s, i) ==
    IF i = 0 THEN [start |-> 0, m |-> NoMatch]
    ELSE [start |-> i, m |-> MatchAt(s, i)]

\* date_format.search(s): the match at the leftmost position that has one;
\* start is 0 when there is none.
Search(s) == SearchAt(s, FirstMatch(s, 1))

\* str.lstrip('0')
RECURSIVE LStripZeros(_)
LStripZeros(s) ==
    IF s # <<>> /\ Head(s) = "0" THEN LStripZeros(Tail(s)) ELSE s

SPACE == <<" ">>
NINETEEN == <<"n", "i", "n", "e", "t", "e", "e", "n">>

\* Lines 223-233: d_str for the day and the month stripped of their zeros and
\* the year group as matched.  The answer is [status, text]: the string
\* returned, or the exception a failed table lookup raises (the lookups of
\* the f-string run left to right, and each failure is a KeyError).
DateString(day, month, given) ==
    LET year     == IF Len(given) # 2 THEN PySliceFrom(given, -2) ELSE given
        KeyError == [status |-> "KeyError", text |-> <<>>]
    IN
    IF month \notin DOMAIN mths \/ day \notin DOMAIN dys THEN KeyError
    ELSE IF given = <<>>
    THEN [status |-> "ok", text |-> mths[month] \o SPACE \o dys[day]]
    ELSE IF year \in DOMAIN yrs_10to19
    THEN [status |-> "ok",
          text |-> mths[month] \o SPACE \o dys[day] \o SPACE \o NINETEEN
                   \o SPACE \o yrs_10to19[year]]
    ELSE IF <<year[1]>> \notin DOMAIN yrs_tens \/ <<year[2]>> \notin DOMAIN yrs_ones
    THEN KeyError
    ELSE [status |-> "ok",
          text |-> mths[month] \o SPACE \o dys[day] \o SPACE \o NINETEEN
                   \o SPACE \o yrs_tens[<<year[1]>>] \o SPACE \o yrs_ones[<<year[2]>>]]

\* Lines 218-221: the groups of the match; no match is None, whose group()
\* is an AttributeError.
DateOfMatch(matched_date) ==
    IF ~matched_date.ok THEN [status |-> "AttributeError", text |-> <<>>]
    ELSE DateString(LStripZeros(matched_date.g1), LStripZeros(matched_date.g2),
                    matched_date.g3)

\* Lines 196-233
normalise_dates(dt) == DateOfMatch(MatchAt(dt, 1))

StartsAt(s, i, old) ==
    i + Len(old) - 1 <= Len(s) /\ SubSeq(s, i, i + Len(old) - 1) = old

\* s[i:].replace(old, new) for a non-empty old: every occurrence, left to
\* right, none overlapping the one before; k is where the next one starts,
\* 0 for none.
RECURSIVE ReplaceFrom(_, _, _, _)

ReplaceNext(s, i, old, new, k) ==
    IF k = 0 THEN SubSeq(s, i, Len(s))
    ELSE SubSeq(s, i, k - 1) \o new \o ReplaceFrom(s, k + Len(old), old, new)

ReplaceFrom(s, i, old, new) ==
    ReplaceNext(s, i, old, new, FirstOf({k \in i..Len(s) : StartsAt(s, k, old)}))

Replace(s, old, new) == ReplaceFrom(s, 1, old, new)

\* str.split(): the maximal runs of characters that are no whitespace.  The
\* next word starts at a, 0 for none, and ends before b, the whitespace after
\* it, 0 for none.
RECURSIVE SplitFrom(_, _)

SplitWord(s, a, b) ==
    IF b = 0 THEN <<SubSeq(s, a, Len(s))>>
    ELSE <<SubSeq(s, a, b - 1)>> \o SplitFrom(s, b)

SplitAt(s, a) ==
    IF a = 0 THEN <<>>
    ELSE SplitWord(s, a, FirstOf({k \in a..Len(s) : s[k] \in Whitespace}))

SplitFrom(s, i) == SplitAt(s, FirstOf({k \in i..Len(s) : s[k] \notin Whitespace}))

Split(s) == SplitFrom(s, 1)

\* word.translate(str.maketrans('', '', string.punctuation))
RECURSIVE StripPunctuation(_)
StripPunctuation(s) ==
    IF s = <<>> THEN <<>>
    ELSE IF Head(s) \in Punctuation THEN StripPunctuation(Tail(s))
    ELSE <<Head(s)>> \o StripPunctuation(Tail(s))

\* Lines 191-194
NormalisedWords(s) ==
    LET words == Split(s)
    IN  [i \in 1..Len(words) |-> Lower(StripPunctuation(words[i]))]

\* Lines 184-194.  The answer is [status, phrase, words]: self.phrase as the
\* call leaves it, and the list returned or the exception raised by
\* normalise_dates.  The recursive call works on self.phrase and its own
\* answer is dropped; the caller's loop then reads the self.phrase it left.
RECURSIVE normalise_phrase(_)

\* Lines 189-194 after the recursive call
AfterRecursion(inner) ==
    IF inner.status # "ok" THEN inner
    ELSE [status |-> "ok", phrase |-> inner.phrase,
          words  |-> NormalisedWords(inner.phrase)]

\* Lines 188-190 once normalise_dates has answered
ReplaceDate(s, date_group, spoken) ==
    IF spoken.status # "ok"
    THEN [status |-> spoken.status, phrase |-> s, words |-> <<>>]
    ELSE AfterRecursion(normalise_phrase(Replace(s, date_group, spoken.text)))

\* Lines 186-194 for the outcome of the search
NormaliseFound(s, date_lookup) ==
    IF date_lookup.start = 0
    THEN [status |-> "ok", phrase |-> s, words |-> NormalisedWords(s)]
    ELSE ReplaceDate(s, SubSeq(s, date_lookup.start, date_lookup.m.end),
                     normalise_dates(SubSeq(s, date_lookup.start, date_lookup.m.end)))

normalise_phrase(s) == NormaliseFound(s, Search(s))

\* LookUp with the loop left at the first word the dictionary lacks
RECURSIVE LookUpUntilMissing(_, _)
LookUpUntilMissing(words, dict) ==
    IF words = <<>> \/ Head(words) \notin DOMAIN dict THEN <<>>
    ELSE dict[Head(words)][1] \o LookUpUntilMissing(Tail(words), dict)

\* Lines 247-254: the first pronunciation of every word the dictionary holds;
\* the KeyError of a word it lacks is caught and the word left out.
RECURSIVE LookUp(_, _)
LookUp(words, dict) ==
    IF words = <<>> THEN <<>>
    ELSE (IF Head(words) \in DOMAIN dict THEN dict[Head(words)][1] ELSE <<>>)
         \o LookUp(Tail(words), dict)

\* PhonesOfNormalised with 'words' reversing the phones looked up, not the
\* words
PhonesOfNormalised_WordsAfterLookup(normalised, dict, reverse) ==
    IF normalised.status # "ok"
    THEN [status |-> normalised.status, phrase |-> normalised.phrase,
          phones |-> <<>>]
    ELSE [status |-> "ok", phrase |-> normalised.phrase,
          phones |-> IF reverse \in {"words", "phones"}
                     THEN Reverse(LookUp(normalised.words, dict))
                     ELSE LookUp(normalised.words, dict)]

\* Lines 244-259, normalised being what normalise_phrase answered
PhonesOfNormalised(normalised, dict, reverse) ==
    IF normalised.status # "ok"
    THEN [status |-> normalised.status, phrase |-> normalised.phrase,
          phones |-> <<>>]
    ELSE LET list_of_phones ==
                 LookUp(IF reverse = "words" THEN Reverse(normalised.words)
                                             ELSE normalised.words, dict)
         IN  [status |-> "ok", phrase |-> normalised.phrase,
              phones |-> IF reverse = "phones" THEN Reverse(list_of_phones)
                                               ELSE list_of_phones]

\* Lines 241-259.  The answer is [status, phrase, phones].
get_phone_seq(s, dict, reverse) ==
    PhonesOfNormalised(normalise_phrase(s), dict, reverse)

----------------------------------------------------------------------------
(* The inputs of the Synth runs *)

\* Longest phone list handed to synthesise
MaxPhones == 3

\* Phones as the caller may write them: with stress digit and in upper case.
\* "A1" names the phone of the a- units below; no unit exists for "b".
SynthPhones == {<<"A", "1">>, <<"b">>}

RECURSIVE SeqsUpTo(_, _)
SeqsUpTo(S, n) ==
    IF n = 0 THEN {<<>>}
    ELSE LET shorter == SeqsUpTo(S, n - 1)
         IN  shorter \cup {Append(s, x) : s \in {t \in shorter : Len(t) = n - 1}, x \in S}

PhoneLists == SeqsUpTo(SynthPhones, MaxPhones)

ReverseModes == {None, "words", "phones", "signal"}

\* The reverse values synthesise is called with: it tests for "signal" alone.
SynthReverse == {None, "words", "signal"}

\* Sample rates of the recordings: windows of 0, 1 and 2 samples.
FolderRates == {99, 160, 200}

\* The entries a diphone directory may hold.  An entry that is no RIFF file
\* (a text file, a damaged recording) does not decode.
Recording(name, data) == [name |-> name, decodes |-> TRUE, data |-> data]
Undecodable(name)     == [name |-> name, decodes |-> FALSE, data |-> <<>>]

CandidateEntries == <<
    Recording(<<"p", "a", "u", "-", "a", ".", "w", "a", "v">>, <<2, -3, 3, 1>>),
    Recording(<<"a", "-", "a", ".", "w", "a", "v">>, <<-2, 3, 1, -3>>),
    Recording(<<"a", "-", "p", "a", "u", ".", "w", "a", "v">>, <<3>>),
    Undecodable(<<"b", "-", "b", ".", "w", "a", "v">>),
    Undecodable(<<"w", "a", "v", ".", "t", "x", "t">>),
    Undecodable(<<"n", "o", "t", "e", "s", ".", "t", "x", "t">>) >>

\* The listing of a directory holding the candidates picked, all recorded at
\* rate r.
RECURSIVE Listing(_, _, _)
Listing(picked, r, i) ==
    IF i > Len(CandidateEntries) THEN <<>>
    ELSE (IF i \in picked
          THEN <<[name    |-> CandidateEntries[i].name,
                  decodes |-> CandidateEntries[i].decodes,
                  rate    |-> r,
                  data    |-> CandidateEntries[i].data]>>
          ELSE <<>>) \o Listing(picked, r, i + 1)

Folders ==
    {Listing(picked, r, 1) : picked \in SUBSET (1..Len(CandidateEntries)),
                             r \in FolderRates}

NoCall  == [phones |-> <<>>, reverse |-> None, smooth_concat |-> FALSE]
NoAudio == [status |-> "none", data |-> <<>>]

----------------------------------------------------------------------------
(* The Synth runs: a directory, Synth(wav_folder), then synthesise calls *)

KeysIdle == phones_in = <<>> /\ l_diphones = <<>>
DateIdle == date = <<>> /\ d_str = [status |-> "none", text |-> <<>>]
ScanIdle == pc = "idle" /\ rescans = 0 /\ scanned = <<>>
UttIdle  ==
    /\ phrase = <<>> /\ phrase0 = <<>> /\ dictionary = <<>>
    /\ reverse_arg = None
    /\ phone_seq = [status |-> "none", phones |-> <<>>]
    /\ ScanIdle

SynthIdle ==
    /\ wav_folder = <<>> /\ constructed = "no" /\ rate = RATE
    /\ diphones = <<>> /\ loaded = <<>>
    /\ call = NoCall /\ pre = <<>> /\ audio = NoAudio

Init ==
    /\ wav_folder \in Folders
    /\ constructed = "no"
    /\ rate = RATE
    /\ diphones = <<>>
    /\ loaded = <<>>
    /\ call = NoCall
    /\ pre = <<>>
    /\ audio = NoAudio
    /\ KeysIdle /\ DateIdle /\ UttIdle

\* Synth.__init__, lines 16-19: an error of get_wavs leaves no instance.
Construct ==
    /\ constructed = "no"
    /\ LET r == get_wavs(wav_folder) IN
       IF r.err
       THEN /\ constructed' = "error"
            /\ UNCHANGED <<rate, diphones, loaded>>
       ELSE /\ constructed' = "ok"
            /\ rate' = r.rate
            /\ diphones' = r.diphones
            /\ loaded' = r.diphones
    /\ UNCHANGED <<wav_folder, call, pre, audio, keysVars, dateVars, uttVars>>

\* Synth.synthesise, lines 74-137, called by main or process_file
Synthesise(phones, reverse, smooth_concat) ==
    /\ constructed = "ok"
    /\ audio = NoAudio
    /\ \E r \in {synthesise(diphones, rate, phones, reverse, smooth_concat)} :
       /\ diphones' = r.diphones
       /\ audio' = [status |-> r.status, data |-> r.data]
    /\ call' = [phones |-> phones, reverse |-> reverse,
                smooth_concat |-> smooth_concat]
    /\ pre' = diphones
    /\ UNCHANGED <<wav_folder, constructed, rate, loaded,
                   keysVars, dateVars, uttVars>>

\* The caller is done with the call's outcome (lines 277-282, 306-316): the
\* Audio, or the exception, is dropped; the Synth instance stays for the next
\* call.
Discard ==
    /\ audio # NoAudio
    /\ audio' = NoAudio
    /\ call' = NoCall
    /\ pre' = <<>>
    /\ UNCHANGED <<wav_folder, constructed, rate, diphones, loaded,
                   keysVars, dateVars, uttVars>>

Next ==
    \/ Construct
    \/ \E phones \in PhoneLists, reverse \in SynthReverse, smooth_concat \in BOOLEAN :
           Synthesise(phones, reverse, smooth_concat)
    \/ Discard

Spec == Init /\ [][Next]_vars

----------------------------------------------------------------------------
(* phones_to_diphones on its own: a phone list, then the call *)

\* Longest phone list handed to phones_to_diphones
MaxKeyPhones == 3

\* Phones in the dictionary's spelling (upper case, stress digit), in the
\* inventory's spelling, and one that is only a digit.
KeyPhones == {<<"a">>, <<"A", "H", "0">>, <<"B">>, <<"e", "y", "2">>, <<"1">>}

KeysInit ==
    /\ phones_in \in SeqsUpTo(KeyPhones, MaxKeyPhones)
    /\ l_diphones = <<>>
    /\ SynthIdle /\ DateIdle /\ UttIdle

PhonesToDiphones ==
    /\ l_diphones = <<>>
    /\ l_diphones' = phones_to_diphones(phones_in)
    /\ UNCHANGED <<phones_in, synthVars, dateVars, uttVars>>

KeysNext == PhonesToDiphones

SpecKeys == KeysInit /\ [][KeysNext]_vars

----------------------------------------------------------------------------
(* normalise_dates on its own: a date, then the call *)

DigitChars == <<"0", "1", "2", "3", "4", "5", "6", "7", "8", "9">>

\* str(n) for n >= 0
RECURSIVE DecStr(_)
DecStr(n) ==
    IF n < 10 THEN <<DigitChars[n + 1]>>
    ELSE DecStr(n \div 10) \o <<DigitChars[(n % 10) + 1]>>

\* A number as a date writes it: plain, or with a leading zero
Written(n) == {DecStr(n), <<"0">> \o DecStr(n)}

DateDays   == UNION {Written(n) : n \in 1..31}
DateMonths == UNION {Written(n) : n \in 1..12}

\* Years of two, three and four digits
DateYears ==
    {<<"7", "3">>, <<"1", "9", "7", "3">>, <<"0", "5">>, <<"1", "9", "0", "5">>,
     <<"1", "0">>, <<"1", "9">>, <<"2", "0", "1", "9">>, <<"2", "1">>,
     <<"8", "0">>, <<"1", "9", "8", "0">>, <<"2", "0", "0", "0">>, <<"9", "7", "3">>}

Dates ==
    {d \o <<"/">> \o m \o <<"/">> \o y :
        d \in DateDays, m \in DateMonths, y \in DateYears}

NoText == [status |-> "none", text |-> <<>>]

DatesInit ==
    /\ date \in Dates
    /\ d_str = NoText
    /\ SynthIdle /\ KeysIdle /\ UttIdle

NormaliseDates ==
    /\ d_str = NoText
    /\ d_str' = normalise_dates(date)
    /\ UNCHANGED <<date, synthVars, keysVars, uttVars>>

DatesNext == NormaliseDates

SpecDates == DatesInit /\ [][DatesNext]_vars

----------------------------------------------------------------------------
(* Utterance: Utterance(phrase), then get_phone_seq calls *)

\* Most words of a phrase
MaxWords == 3

\* The words phrases are made of: with a capital, with punctuation, a date
\* (its 'first' is in no dictionary), and a date whose year the tables do not
\* cover.
UttTokens ==
    {<<"G", "o">>, <<"h", "o", "m", "e", ".">>, <<"a">>,
     <<"1", "/", "3">>, <<"1", "/", "1", "/", "8", "0">>}

RECURSIVE Join(_)
Join(tokens) ==
    IF tokens = <<>> THEN <<>>
    ELSE IF Len(tokens) = 1 THEN Head(tokens)
    ELSE Head(tokens) \o SPACE \o Join(Tail(tokens))

Phrases == {Join(t) : t \in SeqsUpTo(UttTokens, MaxWords)}

\* A stand-in for cmudict.dict(): each word with its list of pronunciations,
\* a pronunciation a list of phones.
Lexicon ==
    (<<"g", "o">> :> << <<<<"G">>, <<"O", "W", "1">>>> >>) @@
    (<<"h", "o", "m", "e">> :> << <<<<"H", "H">>, <<"O", "W", "1">>, <<"M">>>> >>) @@
    (<<"a">> :> << <<<<"A", "H", "0">>>>, <<<<"E", "Y", "1">>>> >>) @@
    (<<"m", "a", "r", "c", "h">> :>
        << <<<<"M">>, <<"A", "A", "1">>, <<"R">>, <<"C", "H">>>> >>)

Dictionaries == {[w \in held |-> Lexicon[w]] : held \in SUBSET DOMAIN Lexicon}

NoPhones == [status |-> "none", phones |-> <<>>]

UttInit ==
    /\ phrase \in Phrases
    /\ phrase0 = phrase
    /\ dictionary \in Dictionaries
    /\ reverse_arg = None
    /\ phone_seq = NoPhones
    /\ ScanIdle
    /\ SynthIdle /\ KeysIdle /\ DateIdle

\* Utterance.get_phone_seq, lines 235-259; normalise_phrase rewrites self.phrase
GetPhoneSeq(reverse) ==
    /\ \E r \in {get_phone_seq(phrase, dictionary, reverse)} :
       /\ phrase' = r.phrase
       /\ phone_seq' = [status |-> r.status, phones |-> r.phones]
    /\ reverse_arg' = reverse
    /\ UNCHANGED <<phrase0, dictionary, scanVars, synthVars, keysVars, dateVars>>

UttNext == \E reverse \in ReverseModes : GetPhoneSeq(reverse)

SpecUtt == UttInit /\ [][UttNext]_vars

----------------------------------------------------------------------------
(* Utterance.normalise_phrase followed through its recursive calls: each
   call searches self.phrase; on a match it has the date verbalised, writes
   the substituted phrase to self.phrase and calls itself (lines 185-190);
   the call that finds no match, and then every call waiting on it, splits
   self.phrase into words and returns (lines 191-194). *)

\* Most tokens in a phrase
MaxTokens == 3

\* The tokens of the phrases: a date that is part of the next one (1/1 in
\* 11/10/1), a date that lies across the month and the year of the next one
\* (2/1 in 5/12/131/4), a word, and a date whose year the tables do not cover.
ScanTokens ==
    {<<"1", "/", "1">>, <<"1", "1", "/", "1", "0", "/", "1">>,
     <<"2", "/", "1">>, <<"5", "/", "1", "2", "/", "1", "3", "1", "/", "4">>,
     <<"a">>, <<"1", "/", "1", "/", "8", "0">>}

ScanPhrases == {Join(t) : t \in SeqsUpTo(ScanTokens, MaxTokens)}

PhraseInit ==
    /\ phrase \in ScanPhrases
    /\ phrase0 = phrase
    /\ dictionary = <<>> /\ reverse_arg = None /\ phone_seq = NoPhones
    /\ pc = "scan" /\ rescans = 0 /\ scanned = <<>>
    /\ SynthIdle /\ KeysIdle /\ DateIdle

\* Line 187: date_lookup.group(0) for a phrase that has a match
DateGroup(s) == SubSeq(s, Search(s).start, Search(s).m.end)

\* Lines 185-190: a match, its verbalisation, the substitution written to
\* self.phrase, and the recursive call
Substitute ==
    /\ pc = "scan"
    /\ Search(phrase).start # 0
    /\ normalise_dates(DateGroup(phrase)).status = "ok"
    /\ phrase' = Replace(phrase, DateGroup(phrase),
                         normalise_dates(DateGroup(phrase)).text)
    /\ scanned' = phrase
    /\ rescans' = rescans + 1
    /\ UNCHANGED <<pc, phrase0, dictionary, reverse_arg, phone_seq,
                   synthVars, keysVars, dateVars>>

\* Lines 185-188: a match that normalise_dates fails on; the exception leaves
\* every pending call
Raise ==
    /\ pc = "scan"
    /\ Search(phrase).start # 0
    /\ normalise_dates(DateGroup(phrase)).status # "ok"
    /\ pc' = normalise_dates(DateGroup(phrase)).status
    /\ UNCHANGED <<phrase, rescans, scanned, phrase0, dictionary, reverse_arg,
                   phone_seq, synthVars, keysVars, dateVars>>

\* Lines 185-186, 191-194: no match; this call and the calls waiting on it
\* read self.phrase and return
Return ==
    /\ pc = "scan"
    /\ Search(phrase).start = 0
    /\ pc' = "returned"
    /\ UNCHANGED <<phrase, rescans, scanned, phrase0, dictionary, reverse_arg,
                   phone_seq, synthVars, keysVars, dateVars>>

PhraseNext == Substitute \/ Raise \/ Return

SpecPhrase == PhraseInit /\ [][PhraseNext]_vars

----------------------------------------------------------------------------
(* What the checks below share *)

\* A synthesise call has ended and its outcome is still at hand
Returned == audio # NoAudio

\* The keys of the last call, and those of them the inventory held when the
\* call started
CallKeys  == phones_to_diphones(call.phones)
CallUnits == SelectSeq(CallKeys, LAMBDA k : k \in DOMAIN pre)

\* The samples returned, mirrored back when the call asked for the mirror
Unmirrored == IF call.reverse = "signal" THEN Reverse(audio.data) ELSE audio.data

\* name ends with suffix
EndsWith(s, suffix) ==
    /\ Len(s) >= Len(suffix)
    /\ SubSeq(s, Len(s) - Len(suffix) + 1, Len(s)) = suffix

RECURSIVE SumLen(_, _)
SumLen(keys, d) ==
    IF keys = <<>> THEN 0 ELSE Len(d[Head(keys)]) + SumLen(Tail(keys), d)

\* round(num / den) as Python rounds: to the nearest integer, a tie to the
\* even one
RoundHalfEven(num, den) ==
    LET q == num \div den
        twice == 2 * (num % den)
    IN  IF twice < den THEN q
        ELSE IF twice > den THEN q + 1
        ELSE IF q % 2 = 0 THEN q ELSE q + 1

----------------------------------------------------------------------------
(* Synth: the inventory *)

\* C1 (as claimed): after any sequence of synthesise calls every unit of the
\* inventory holds the samples it held right after loading, and so a call
\* returns what the same call returns on the inventory as loaded.
C1_InventoryAsLoaded ==
    constructed = "ok" =>
        /\ diphones = loaded
        /\ Returned =>
               LET fresh == synthesise(loaded, rate, call.phones, call.reverse,
                                       call.smooth_concat)
               IN  audio = [status |-> fresh.status, data |-> fresh.data]

\* C2 (as claimed): with crossfade on and fewer than two units found, the
\* call returns: nothing for no unit, the one unit's samples as they were for
\* one unit.
C2_FewUnitsPassThrough ==
    (Returned /\ call.smooth_concat /\ Len(CallUnits) < 2) =>
        /\ audio.status = "ok"
        /\ Len(CallUnits) = 0 => audio.data = <<>>
        /\ Len(CallUnits) = 1 => Unmirrored = pre[CallUnits[1]]

\* The statement of C3 for a window of n samples, the units' remainders read
\* from the inventory held (a function from key to samples): a crossfaded
\* call over m >= 2 units of at least 2n samples each returns
\* sum(len) - (m-1)*n samples; unit i lies at offset
\* sum(len of the units before it) - (i-1)*n, with its first n samples (but
\* for the first unit) and its last n (but for the last) inside the overlaps,
\* and every other sample of it in the output as held holds it.
C3_Crossfaded(n, held) ==
    LET m == Len(CallUnits)
        Offset(i) == SumLen(SubSeq(CallUnits, 1, i - 1), pre) - (i - 1) * n
        Remainder(i) ==
            {k \in 1..Len(pre[CallUnits[i]]) :
                /\ i = 1 \/ k > n
                /\ i = m \/ k <= Len(pre[CallUnits[i]]) - n}
    IN  ( /\ Returned /\ call.smooth_concat
          /\ m >= 2
          /\ \A i \in 1..m : Len(pre[CallUnits[i]]) >= 2 * n )
        => /\ audio.status = "ok"
           /\ Len(audio.data) = SumLen(CallUnits, pre) - (m - 1) * n
           /\ \A i \in 1..m : \A k \in Remainder(i) :
                  /\ Offset(i) + k \in 1..Len(audio.data)
                  /\ Unmirrored[Offset(i) + k] = held[CallUnits[i]][k]

\* C3 (as claimed): with the window N = round(rate / 100), the output of a
\* crossfaded call over m >= 2 units of at least 2N samples has
\* sum(len) - (m-1)*N samples, the overlaps lying between the remainders of
\* the units, each remainder as the inventory held it when the call started.
C3_CrossfadeAsClaimed == C3_Crossfaded(RoundHalfEven(rate, 100), pre)

\* C3 (what the code keeps of it): with the window N = int(rate / 100), at
\* least one sample long, the length and the layout are those of the claim,
\* the remainders being the units' samples as the call leaves them.
C3_LengthWithTruncatedWindow ==
    (rate \div 100 >= 1) => C3_Crossfaded(rate \div 100, diphones)

\* C3 fails with the truncated window as well: a unit that is first and
\* occurs again has its head ramped in place, so that the first remainder of
\* the output is not the unit as the call found it.
C3_UntouchedWithTruncatedWindow ==
    (rate \div 100 >= 1) => C3_Crossfaded(rate \div 100, pre)

C3_Witness ==
    /\ Returned /\ call.smooth_concat /\ audio.status = "ok"
    /\ rate \div 100 >= 1
    /\ Len(CallUnits) >= 3
    /\ \A i \in 1..Len(CallUnits) : Len(pre[CallUnits[i]]) >= 2 * (rate \div 100)

\* C4: a plain call whose reverse is not 'signal' returns, and returns the
\* units of the keys the inventory holds, one after the other in key order;
\* a key it lacks adds nothing.
C4_PlainConcatenation ==
    (Returned /\ ~call.smooth_concat /\ call.reverse # "signal") =>
        /\ audio.status = "ok"
        /\ audio.data = Flatten([i \in 1..Len(CallKeys) |->
                            IF CallKeys[i] \in DOMAIN pre THEN pre[CallKeys[i]]
                                                          ELSE <<>>])
        /\ Len(audio.data) = SumLen(CallUnits, pre)

C4_Witness ==
    /\ Returned /\ ~call.smooth_concat /\ call.reverse # "signal"
    /\ \E i \in 1..Len(CallKeys) : CallKeys[i] \notin DOMAIN pre
    /\ Len(CallUnits) >= 2
    /\ audio.data # <<>>

\* C7: a call with reverse='signal' ends as the same call with reverse=None
\* from the same inventory ends, and when that one returns a buffer this one
\* returns its mirror, end to end.
C7_SignalIsMirror ==
    (Returned /\ call.reverse = "signal") =>
        LET forward == synthesise(pre, rate, call.phones, None, call.smooth_concat)
        IN  /\ audio.status = forward.status
            /\ audio.data = Reverse(forward.data)
            /\ Len(audio.data) = Len(forward.data)

C7_Witness ==
    /\ Returned /\ call.reverse = "signal" /\ call.smooth_concat
    /\ audio.status = "ok"
    /\ Len(CallUnits) >= 2
    /\ audio.data # Reverse(audio.data)

\* C10 (as claimed): construction fails exactly when an entry with the .wav
\* extension does not decode; an entry without the extension is never stored
\* and every decoded .wav entry is stored under its name.
C10_FailsOnlyOnWavEntries ==
    LET entries == {wav_folder[i] : i \in 1..Len(wav_folder)} IN
    constructed # "no" =>
        /\ constructed = "error"
               <=> \E e \in entries : EndsWith(e.name, DOT_WAV) /\ ~e.decodes
        /\ constructed = "ok" =>
               /\ \A e \in entries :
                      EndsWith(e.name, DOT_WAV) =>
                          e.name \in DOMAIN loaded /\ loaded[e.name] = e.data
               /\ \A e \in entries :
                      ~EndsWith(e.name, DOT_WAV) => e.name \notin DOMAIN loaded

----------------------------------------------------------------------------
(* Synth: the ramps *)

\* C11 (as claimed): in a crossfaded call over m >= 2 units of at least 2N
\* samples, N = int(rate / 100) >= 1, every tail but the last unit's and every
\* head but the first unit's is ramped once, a key that occurs twice included:
\* sample j (0..N-1) of the overlap between occurrences i and i+1 is
\* trunc(a * (N-1-j) / N) + trunc(b * j / N), a the j-th of the last N samples
\* of unit i as loaded and b the j-th of the first N samples of unit i+1 as
\* loaded, and every sample outside the overlaps is the sample as loaded.
C11_RampedOnceFromLoaded ==
    LET n == rate \div 100
        m == Len(CallUnits)
        OverlapAt(i) == SumLen(SubSeq(CallUnits, 1, i), loaded) - i * n
        TailSample(i, j) == loaded[CallUnits[i]][Len(loaded[CallUnits[i]]) - n + j + 1]
        HeadSample(i, j) == loaded[CallUnits[i + 1]][j + 1]
    IN  ( /\ Returned /\ call.smooth_concat
          /\ n >= 1 /\ m >= 2
          /\ \A i \in 1..m : Len(loaded[CallUnits[i]]) >= 2 * n )
        => /\ C3_Crossfaded(n, loaded)
           /\ \A i \in 1..(m - 1) : \A j \in 0..(n - 1) :
                  /\ OverlapAt(i) + j + 1 \in 1..Len(audio.data)
                  /\ Unmirrored[OverlapAt(i) + j + 1] =
                         Trunc(TailSample(i, j) * (n - 1 - j), n) + Trunc(HeadSample(i, j) * j, n)

\* A crossfaded call has returned whose keys resolve one unit twice, every
\* unit long enough for the window
C11_Witness ==
    /\ Returned /\ call.smooth_concat /\ audio.status = "ok"
    /\ rate \div 100 >= 1
    /\ Len(CallUnits) >= 3
    /\ \E i, j \in 1..Len(CallUnits) : i # j /\ CallUnits[i] = CallUnits[j]
    /\ \A i \in 1..Len(CallUnits) : Len(loaded[CallUnits[i]]) >= 2 * (rate \div 100)

----------------------------------------------------------------------------
(* phones_to_diphones *)

\* A phone as the keys spell it: digits dropped, lower case
KeySpelling(phone) == Lower(SelectSeq(phone, LAMBDA c : c \notin Digits))

\* C5: a list of n phones gives n + 1 keys, key i being p[i] '-' p[i+1] '.wav'
\* for p = 'pau', the phones in lower case without digits, 'pau'; no phone
\* gives the one key 'pau-pau.wav'.
C5_KeysOfPhones ==
    l_diphones # <<>> =>
        LET n == Len(phones_in)
            p == <<PAU>> \o [i \in 1..n |-> KeySpelling(phones_in[i])] \o <<PAU>>
        IN  /\ Len(l_diphones) = n + 1
            /\ \A i \in 1..(n + 1) :
                   l_diphones[i] = p[i] \o <<"-">> \o p[i + 1] \o DOT_WAV
            /\ n = 0 => l_diphones = <<PAU \o <<"-">> \o PAU \o DOT_WAV>>

C5_Witness ==
    /\ l_diphones # <<>>
    /\ Len(phones_in) >= 2
    /\ phones_in[1] = <<"A", "H", "0">>
    /\ l_diphones[1] = <<"p", "a", "u", "-", "a", "h", ".", "w", "a", "v">>

----------------------------------------------------------------------------
(* normalise_dates *)

\* The year words of the claim for the last two digits yy of the year
ClaimedYearWords(yy) ==
    IF yy \in DOMAIN yrs_10to19 THEN yrs_10to19[yy]
    ELSE yrs_tens[<<yy[1]>>] \o SPACE
         \o (IF yy[2] = "0" THEN <<"o">> ELSE yrs_ones[<<yy[2]>>])

\* C6 (as claimed): a date of day 1..31, month 1..12 and a year of two digits
\* or more is turned into '<month> <ordinal> nineteen <year words>', the year
\* words those of the year's last two digits, a 0 ones digit read 'o'.
C6_EveryDateVerbalised ==
    d_str # NoText =>
        LET parts == MatchAt(date, 1)
            yy    == PySliceFrom(parts.g3, -2)
        IN  /\ d_str.status = "ok"
            /\ d_str.text = mths[LStripZeros(parts.g2)] \o SPACE
                            \o dys[LStripZeros(parts.g1)] \o SPACE
                            \o NINETEEN \o SPACE \o ClaimedYearWords(yy)

----------------------------------------------------------------------------
(* get_phone_seq *)

\* The words of the phrase the Utterance was built with
PhraseWords == normalise_phrase(phrase0).words

Called == phone_seq # NoPhones

FirstPronunciation(word) == dictionary[word][1]

\* C8: a word the dictionary lacks raises nothing (the call ends as the
\* normalisation of the phrase ends) and adds nothing: the phones returned
\* are the first pronunciations of the words the dictionary holds, in order.
C8_MissingWordsSkipped ==
    Called =>
        /\ phone_seq.status = normalise_phrase(phrase0).status
        /\ (phone_seq.status = "ok" /\ reverse_arg \notin {"words", "phones"}) =>
               LET held == SelectSeq(PhraseWords, LAMBDA w : w \in DOMAIN dictionary)
               IN  phone_seq.phones =
                       Flatten([i \in 1..Len(held) |-> FirstPronunciation(held[i])])

C8_Witness ==
    /\ Called /\ phone_seq.status = "ok" /\ reverse_arg = None
    /\ Len(PhraseWords) >= 3
    /\ PhraseWords[1] \in DOMAIN dictionary
    /\ PhraseWords[2] \notin DOMAIN dictionary
    /\ PhraseWords[3] \in DOMAIN dictionary
    /\ PhraseWords[1] # PhraseWords[3]

\* The phones of one word: its first pronunciation, none when it is missing
PhonesOfWord(word) ==
    IF word \in DOMAIN dictionary THEN FirstPronunciation(word) ELSE <<>>

\* C9: reverse='words' gives the words' phone lists in reversed word order,
\* each list in its own order; reverse='phones' gives the plain result
\* reversed as one list; any other reverse gives the plain result.
C9_ReverseModes ==
    (Called /\ phone_seq.status = "ok") =>
        LET plain == get_phone_seq(phrase0, dictionary, None).phones
            backwards == Reverse(PhraseWords)
        IN  /\ reverse_arg = "words" =>
                   phone_seq.phones =
                       Flatten([i \in 1..Len(backwards) |-> PhonesOfWord(backwards[i])])
            /\ reverse_arg = "phones" => phone_seq.phones = Reverse(plain)
            /\ reverse_arg \notin {"words", "phones"} => phone_seq.phones = plain

C9_Witness ==
    /\ Called /\ phone_seq.status = "ok" /\ reverse_arg = "words"
    /\ LET plain == get_phone_seq(phrase0, dictionary, None).phones
       IN  phone_seq.phones # plain /\ phone_seq.phones # Reverse(plain)

----------------------------------------------------------------------------
(* normalise_phrase: the rescans *)

\* date_format.finditer(s) from position i on: the matches found left to
\* right, each search starting where the match before ended
RECURSIVE FindAll(_, _)

FindAllAt(s, k) ==
    IF k = 0 THEN <<>>
    ELSE <<MatchAt(s, k)>> \o FindAll(s, MatchAt(s, k).end + 1)

FindAll(s, i) == FindAllAt(s, FirstMatch(s, i))

\* The number of date-pattern matches in s
CountMatches(s) == Len(FindAll(s, 1))

\* A match with a day 1..31, a month 1..12 and no year or a year the tables
\* put into words
DateInRange(m) ==
    /\ LStripZeros(m.g1) \in DOMAIN dys
    /\ LStripZeros(m.g2) \in DOMAIN mths
    /\ DateOfMatch(m).status = "ok"

AllDatesInRange(s) ==
    \A k \in 1..CountMatches(s) : DateInRange(FindAll(s, 1)[k])

\* The claim's three counts: a substitution leaves fewer matches than it
\* found, there are no more recursive calls than the phrase had matches, and
\* a call that returns leaves no match in self.phrase.
RescansDecrease ==
    /\ rescans >= 1 => CountMatches(phrase) < CountMatches(scanned)
    /\ rescans <= CountMatches(phrase0)
    /\ pc = "returned" => CountMatches(phrase) = 0

\* C12 (as claimed): for a phrase whose date matches all have a day 1..31, a
\* month 1..12 and a year that can be put into words, every substitution of
\* normalise_phrase leaves fewer date matches than it found, the recursive
\* calls are no more than the date matches of the phrase, and the phrase a
\* call that returns leaves has no date match.
C12_RescanLoopReturns ==
    (pc # "idle" /\ AllDatesInRange(phrase0)) => RescansDecrease

\* The number of '/' in s
Slashes(s) == Len(SelectSeq(s, LAMBDA c : c = "/"))

\* C12 (what the code keeps of it): every substitution takes at least one '/'
\* out of the phrase, so that the loop ends within as many recursive calls as
\* the phrase has '/', by returning a phrase without a match or by the
\* exception of a verbalisation; the outcome is that of normalise_phrase
\* computed in one piece.
C12_RescanLoopEnds ==
    pc # "idle" =>
        /\ rescans >= 1 => Slashes(phrase) < Slashes(scanned)
        /\ rescans + Slashes(phrase) <= Slashes(phrase0)
        /\ normalise_phrase(phrase0).phrase = normalise_phrase(phrase).phrase
        /\ pc = "returned" =>
               /\ CountMatches(phrase) = 0
               /\ normalise_phrase(phrase0).status = "ok"
               /\ normalise_phrase(phrase0).phrase = phrase
        /\ pc \notin {"scan", "returned"} =>
               /\ normalise_phrase(phrase0).status = pc
               /\ normalise_phrase(phrase0).phrase = phrase

\* A phrase of dates in range went through more substitutions than it had
\* dates, and returned
C12_Witness ==
    /\ pc = "returned"
    /\ AllDatesInRange(phrase0)
    /\ rescans > CountMatches(phrase0)

====
